---- MODULE Spec2Model ----
(***************************************************************************)
(* Multi-stream acoustic model orchestrators of                            *)
(* nnsvs/acoustic_models/multistream.py:                                   *)
(*   MultistreamSeparateF0ParametricModel  ("SeparateF0Parametric")        *)
(*   NPSSMDNMultistreamParametricModel     ("NPSSMDN")                     *)
(*   NPSSMultistreamParametricModel        ("NPSS")                        *)
(*   MultistreamSeparateF0MelModel         ("SeparateF0Mel")               *)
(*   HybridMultistreamSeparateF0MelModel   ("HybridMel")                   *)
(*                                                                         *)
(* A tensor is abstracted to its Python type, its feature width, its rank  *)
(* and the ordered list of the parts it was concatenated from.  A forward  *)
(* call is a sequence of steps, one per statement group of forward(); the  *)
(* sub-predictors are opaque and return a value of a shape drawn from a    *)
(* small set.                                                              *)
(***************************************************************************)
EXTENDS Integers, Sequences, FiniteSets, TLC

VARIABLES
    args,       \* the arguments of the constructor call
    orch,       \* the constructed orchestrator (self), or NoOrch
    ar,         \* is_autoregressive() of every sub-predictor object
    lf0_model,  \* attributes of the F0 sub-predictor object
    pc,         \* position of the running forward call
    x,          \* forward argument x: batch size and feature width
    y,          \* forward argument y: None or a target tensor
    loc,        \* local variables of the running forward call
    calls,      \* sub-predictor invocations of the running call, in order
    result,     \* what the last call returned or raised
    ar_result,  \* what the last is_autoregressive() call returned
    orchs,      \* the orchestrators that share the F0 sub-predictor object
    threads     \* the forward calls in flight on the shared orchestrators

vars ==
    <<args, orch, ar, lf0_model, pc, x, y, loc, calls, result, ar_result,
      orchs, threads>>

----------------------------------------------------------------------------
\* Bounds of the model.

\* stream_sizes has between MinStreams and MaxStreams entries
MinStreams == 2
MaxStreams == 7
\* a multi-stage (postnet) output has MaxStages - 1 or MaxStages stages
MaxStages == 2
\* batch size of x: 1..MaxBatch
MaxBatch == 2
\* in_dim passed to the constructors; x has width 1..InDim+1
InDim == 2
\* forward calls that may be in flight at the same time
MaxThreads == 2

----------------------------------------------------------------------------
\* Values: tensors, lists, tuples, None, unbound locals and exceptions.

Exceptions ==
    {"AssertionError", "ValueError", "TypeError", "IndexError",
     "RuntimeError", "UnboundLocalError"}

Part(src) == [src |-> src, sel |-> <<>>]

PartAt(src, idx) == [src |-> src, sel |-> <<idx>>]

\* a (batch, time, w) tensor made of the given parts
TensorOf(w, parts) ==
    [kind |-> "tensor", n |-> 0, w |-> w, rank |-> 3, parts |-> parts]

Tensor(w, src) == TensorOf(w, <<Part(src)>>)

\* a Python list of n stage tensors of width w
ListOf(n, w, src) ==
    [kind |-> "list", n |-> n, w |-> w, rank |-> 0, parts |-> <<Part(src)>>]

\* a Python tuple (refined prediction, earlier-stage prediction)
TupleOf(w, src) ==
    [kind |-> "tuple", n |-> 2, w |-> w, rank |-> 0, parts |-> <<Part(src)>>]

NoneVal == [kind |-> "None", n |-> 0, w |-> 0, rank |-> 0, parts |-> <<>>]

Unbound == [kind |-> "unbound", n |-> 0, w |-> 0, rank |-> 0, parts |-> <<>>]

Exc(e) == [kind |-> e, n |-> 0, w |-> 0, rank |-> 0, parts |-> <<>>]

IsExc(v) == v.kind \in Exceptions

isinstance_list(v) == v.kind = "list"

RECURSIVE SumSeq(_)
SumSeq(s) == IF s = <<>> THEN 0 ELSE s[1] + SumSeq(Tail(s))

RECURSIVE FlattenParts(_)
FlattenParts(vs) ==
    IF vs = <<>> THEN <<>> ELSE vs[1].parts \o FlattenParts(Tail(vs))

\* the first exception of a sequence of values, in evaluation order
FirstExc(vs) ==
    LET bad == {i \in DOMAIN vs : IsExc(vs[i])}
    IN  vs[CHOOSE i \in bad : \A j \in bad : i <= j]

\* reading a local variable: an unassigned name raises UnboundLocalError
Load(v) == IF v.kind = "unbound" THEN Exc("UnboundLocalError") ELSE v

\* len(v): the stages of a list or tuple, the batch size of a tensor
len(v, B) == IF v.kind \in {"list", "tuple"} THEN v.n ELSE B

\* v[idx]: a stage of a list or tuple, a batch row of a tensor
Index(v, idx, B) ==
    IF IsExc(v) THEN v
    ELSE IF v.kind \in {"list", "tuple"}
    THEN IF idx < v.n
         THEN [kind |-> "tensor", n |-> 0, w |-> v.w, rank |-> 3,
               parts |-> <<PartAt(v.parts[1].src, idx)>>]
         ELSE Exc("IndexError")
    ELSE IF v.kind = "tensor"
    THEN IF idx < B
         THEN [kind |-> "tensor", n |-> 0, w |-> v.w, rank |-> v.rank - 1,
               parts |-> <<PartAt(v.parts[1].src, idx)>>]
         ELSE Exc("IndexError")
    ELSE Exc("TypeError")

\* torch.cat(vs, dim=-1): the arguments are evaluated first, every one must
\* be a tensor, and all of the same rank; the widths add up
cat(vs) ==
    IF \E i \in DOMAIN vs : IsExc(vs[i]) THEN FirstExc(vs)
    ELSE IF \E i \in DOMAIN vs : vs[i].kind # "tensor" THEN Exc("TypeError")
    ELSE IF \E i, j \in DOMAIN vs : vs[i].rank # vs[j].rank
    THEN Exc("RuntimeError")
    ELSE [kind |-> "tensor", n |-> 0,
          w |-> SumSeq([i \in DOMAIN vs |-> vs[i].w]),
          rank |-> vs[1].rank, parts |-> FlattenParts(vs)]

\* nnsvs.multistream.split_streams(y, stream_sizes): one tensor per entry of
\* stream_sizes, in order, stream i being slice i of y
split_streams(yv, stream_sizes) ==
    [i \in DOMAIN stream_sizes |->
        TensorOf(stream_sizes[i], <<PartAt("y", i - 1)>>)]

----------------------------------------------------------------------------
\* The objects: sub-predictors and orchestrators.

Variants ==
    {"SeparateF0Parametric", "NPSSMDN", "NPSS", "SeparateF0Mel", "HybridMel"}

EncoderVariants == {"SeparateF0Parametric", "SeparateF0Mel"}

CascadedVariants == {"NPSSMDN", "NPSS", "HybridMel"}

\* the variants whose inference returns (out, out)
HybridVariants == {"NPSSMDN", "HybridMel"}

\* every sub-predictor object that can be handed to a constructor
Objects ==
    {"encoder", "mgc_model", "mel_model", "lf0_model", "vuv_model",
     "bap_model", "vib_model", "vib_flags_model"}

NoOrch == [variant |-> "none"]

\* the default normalization constants of the constructors
DefaultNorm ==
    [in_lf0_min |-> "5.3936276", in_lf0_max |-> "6.491111",
     out_lf0_mean |-> "5.953093881972361",
     out_lf0_scale |-> "0.23435173188961034"]

\* normalization constants a caller sets instead of the defaults
CustomNorm ==
    [in_lf0_min |-> "4.0", in_lf0_max |-> "7.0",
     out_lf0_mean |-> "5.5", out_lf0_scale |-> "0.5"]

NormFields == {"in_lf0_min", "in_lf0_max", "out_lf0_mean", "out_lf0_scale"}

IdxFields == {"in_lf0_idx", "out_lf0_idx"}

\* an F0 sub-predictor attribute is <<>> when absent, <<value>> when set.
\* A plain F0 model has none of the normalization attributes.
PlainF0Model == [a \in NormFields \cup IdxFields |-> <<>>]

\* A residual F0 model, constructed with its own (stale) constants.
ResF0Model ==
    [a \in NormFields \cup IdxFields |->
        IF a \in NormFields THEN <<"stale">>
        ELSE IF a = "in_lf0_idx" THEN <<300>> ELSE <<180>>]

\* A model exposing out_lf0_mean only.
MeanOnlyF0Model ==
    [a \in NormFields \cup IdxFields |->
        IF a = "out_lf0_mean" THEN <<"stale">> ELSE <<>>]

hasattr(obj, a) == obj[a] # <<>>

\* stream_sizes of n streams; out_dim is their sum
StreamSizes(n) == [i \in 1..n |-> 1]

\* the stream counts each constructor accepts
AllowedStreams(variant) ==
    CASE variant = "SeparateF0Parametric" -> {4, 5, 6}
      [] variant \in {"NPSSMDN", "NPSS"} -> {4}
      [] variant \in {"SeparateF0Mel", "HybridMel"} -> {3}

\* the keyword defaults of each constructor
DefaultRestIdx(variant) == IF variant \in EncoderVariants THEN 1 ELSE 0

DefaultInLf0Idx(variant) == IF variant \in EncoderVariants THEN 300 ELSE 51

DefaultOutLf0Idx(variant) == IF variant \in EncoderVariants THEN 180 ELSE 60

\* the assertions of __init__: the stream count, and a non-null encoder
\* must not be autoregressive
\* (variant: the encoder is never asked)
CtorAsserts_no_encoder_check(variant, stream_sizes, encoder, arflags) ==
    Len(stream_sizes) \in AllowedStreams(variant)

CtorAsserts(variant, stream_sizes, encoder, arflags) ==
    /\ Len(stream_sizes) \in AllowedStreams(variant)
    /\ (variant \in EncoderVariants /\ encoder # "None")
          => ~arflags["encoder"]

\* self after __init__
NewOrch(variant, stream_sizes, encoder, vib, vibf, tf, npss, norm) ==
    [variant |-> variant,
     in_dim |-> InDim,
     out_dim |-> SumSeq(stream_sizes),
     stream_sizes |-> stream_sizes,
     encoder |-> encoder,
     vib_model |-> vib,
     vib_flags_model |-> vibf,
     lf0_teacher_forcing |-> tf,
     npss_style_conditioning |-> npss,
     in_rest_idx |-> DefaultRestIdx(variant),
     in_lf0_idx |-> DefaultInLf0Idx(variant),
     in_lf0_min |-> norm.in_lf0_min,
     in_lf0_max |-> norm.in_lf0_max,
     out_lf0_idx |-> DefaultOutLf0Idx(variant),
     out_lf0_mean |-> norm.out_lf0_mean,
     out_lf0_scale |-> norm.out_lf0_scale]

\* the constructor arguments that exist for each variant; the others keep a
\* fixed value
CtorArgs(variant) ==
    [encoder : IF variant \in EncoderVariants
               THEN {"None", "encoder"} ELSE {"None"},
     vib : IF variant = "SeparateF0Parametric"
           THEN {"None", "vib_model"} ELSE {"None"},
     vibf : IF variant = "SeparateF0Parametric"
            THEN {"None", "vib_flags_model"} ELSE {"None"},
     tf : IF variant = "SeparateF0Parametric" THEN BOOLEAN ELSE {TRUE},
     npss : IF variant = "NPSS" THEN BOOLEAN ELSE {FALSE}]

\* the sub-predictors an orchestrator owns and that are not None
Spectral(o) ==
    IF o.variant \in {"SeparateF0Mel", "HybridMel"}
    THEN "mel_model" ELSE "mgc_model"

OwnedSubs(o) ==
    {Spectral(o), "lf0_model", "vuv_model"}
    \cup (IF o.variant \in {"SeparateF0Mel", "HybridMel"}
          THEN {} ELSE {"bap_model"})
    \cup ({o.encoder, o.vib_model, o.vib_flags_model} \ {"None"})

\* _set_lf0_params: the F0 sub-predictor after the push
\* (variants: no hasattr probe; the index fields overwritten too)
set_lf0_params_skip_probe(o, m) ==
    [a \in DOMAIN m |-> IF a \in NormFields THEN <<o[a]>> ELSE m[a]]

set_lf0_params_idx(o, m) ==
    IF hasattr(m, "out_lf0_mean")
    THEN [a \in DOMAIN m |-> <<o[a]>>]
    ELSE m

set_lf0_params(o, m) ==
    IF hasattr(m, "out_lf0_mean")
    THEN [a \in DOMAIN m |-> IF a \in NormFields THEN <<o[a]>> ELSE m[a]]
    ELSE m

\* is_autoregressive(): the chain of "or" over the sub-predictors
\* (variant: vib_flags_model left out)
is_autoregressive_no_vib_flags(o, arflags) ==
    \/ arflags[Spectral(o)]
    \/ arflags["lf0_model"]
    \/ arflags["vuv_model"]
    \/ (o.variant \in {"SeparateF0Parametric", "NPSSMDN", "NPSS"}
          /\ arflags["bap_model"])
    \/ (o.variant = "SeparateF0Parametric"
          /\ (IF o.vib_model # "None" THEN arflags["vib_model"] ELSE FALSE))

is_autoregressive(o, arflags) ==
    \/ arflags[Spectral(o)]
    \/ arflags["lf0_model"]
    \/ arflags["vuv_model"]
    \/ (o.variant \in {"SeparateF0Parametric", "NPSSMDN", "NPSS"}
          /\ arflags["bap_model"])
    \/ (o.variant = "SeparateF0Parametric"
          /\ (IF o.vib_model # "None" THEN arflags["vib_model"] ELSE FALSE))
    \/ (o.variant = "SeparateF0Parametric"
          /\ (IF o.vib_flags_model # "None"
              THEN arflags["vib_flags_model"] ELSE FALSE))

----------------------------------------------------------------------------
\* The forward computation.

LocalNames ==
    {"y_mgc", "y_mel", "y_lf0", "y_vuv", "y_bap", "y_vib", "y_vib_flags",
     "lf0", "lf0_residual", "encoder_outs", "mgc", "mel", "vuv", "bap",
     "vib", "vib_flags"}

NoLocals == [name \in LocalNames |-> Unbound]

NoResult ==
    [status |-> "none", exc |-> "", form |-> "", outs |-> <<>>,
     residual |-> NoneVal]

Raised(e) ==
    [status |-> "raise", exc |-> e, form |-> "", outs |-> <<>>,
     residual |-> NoneVal]

Returned(form, outs, residual) ==
    [status |-> "return", exc |-> "", form |-> form, outs |-> outs,
     residual |-> residual]

Xv == Tensor(x.w, "x")

\* x.shape[-1] == self.in_dim
\* (variant: no check)
in_dim_ok_unchecked(o, xa) == TRUE

in_dim_ok(o, xa) == xa.w = o.in_dim

\* the local name of the spectral prediction and of its target
Spec_(o) == IF o.variant \in {"SeparateF0Mel", "HybridMel"} THEN "mel" ELSE "mgc"

YSpec(o) ==
    IF o.variant \in {"SeparateF0Mel", "HybridMel"} THEN "y_mel" ELSE "y_mgc"

\* the names the split target is unpacked into
TargetNames(o) ==
    IF o.variant = "SeparateF0Parametric"
    THEN IF o.vib_model = "None" /\ o.vib_flags_model = "None"
         THEN <<"y_mgc", "y_lf0", "y_vuv", "y_bap">>
         ELSE IF o.vib_flags_model = "None"
         THEN <<"y_mgc", "y_lf0", "y_vuv", "y_bap", "y_vib">>
         ELSE <<"y_mgc", "y_lf0", "y_vuv", "y_bap", "y_vib", "y_vib_flags">>
    ELSE IF o.variant \in {"NPSSMDN", "NPSS"}
    THEN <<"y_mgc", "y_lf0", "y_vuv", "y_bap">>
    ELSE <<"y_mel", "y_lf0", "y_vuv">>

\* the names set to None when no target is given
NoneNames(o) ==
    IF o.variant = "SeparateF0Parametric"
    THEN {"y_mgc", "y_lf0", "y_vuv", "y_bap", "y_vib", "y_vib_flags"}
    ELSE IF o.variant \in {"NPSSMDN", "NPSS"}
    THEN {"y_mgc", "y_lf0", "y_vuv", "y_bap"}
    ELSE {"y_mel", "y_lf0", "y_vuv"}

\* the statements of forward that invoke something, in program order
\* (variant: the cascaded parametric models predict V/UV before aperiodicity)
Order_vuv_before_bap(o) ==
    CASE o.variant = "SeparateF0Parametric" ->
           <<"lf0", "encoder", "spectral", "vuv", "bap">>
           \o (IF o.vib_model # "None" THEN <<"vib">> ELSE <<>>)
           \o (IF o.vib_flags_model # "None" THEN <<"vib_flags">> ELSE <<>>)
           \o <<"concat">>
      [] o.variant \in {"NPSSMDN", "NPSS"} ->
           <<"lf0", "spectral", "vuv", "bap", "concat">>
      [] o.variant = "SeparateF0Mel" ->
           <<"lf0", "encoder", "spectral", "vuv", "concat">>
      [] o.variant = "HybridMel" ->
           <<"lf0", "spectral", "vuv", "concat">>

Order(o) ==
    CASE o.variant = "SeparateF0Parametric" ->
           <<"lf0", "encoder", "spectral", "vuv", "bap">>
           \o (IF o.vib_model # "None" THEN <<"vib">> ELSE <<>>)
           \o (IF o.vib_flags_model # "None" THEN <<"vib_flags">> ELSE <<>>)
           \o <<"concat">>
      [] o.variant \in {"NPSSMDN", "NPSS"} ->
           <<"lf0", "spectral", "bap", "vuv", "concat">>
      [] o.variant = "SeparateF0Mel" ->
           <<"lf0", "encoder", "spectral", "vuv", "concat">>
      [] o.variant = "HybridMel" ->
           <<"lf0", "spectral", "vuv", "concat">>

After(o, p) ==
    LET ord == Order(o)
        i == CHOOSE k \in DOMAIN ord : ord[k] = p
    IN  ord[i + 1]

\* whether the ground-truth F0 goes into the shared conditioning tensor
\* (variant: always the predicted F0)
UseTargetF0_always_pred(o, yv) == FALSE

UseTargetF0(o, yv) ==
    IF o.variant = "SeparateF0Parametric"
    THEN o.lf0_teacher_forcing /\ yv # NoneVal
    ELSE yv # NoneVal

\* encoder_outs of the encoder-based variants
EncoderOuts(o, l, xv, yv) ==
    IF o.encoder # "None"
    THEN LET enc == Tensor(1, "encoder")
             rest_flags == IF o.in_rest_idx < xv.w
                           THEN Tensor(1, "rest_flags")
                           ELSE Exc("IndexError")
         IN  IF UseTargetF0(o, yv)
             THEN cat(<<enc, rest_flags, Load(l["y_lf0"])>>)
             ELSE cat(<<enc, rest_flags, Load(l["lf0"])>>)
    ELSE xv

\* the input built for the spectral (mgc or mel) sub-predictor
SpectralInp(o, l, xv, yv) ==
    IF o.variant \in EncoderVariants THEN Load(l["encoder_outs"])
    ELSE IF yv = NoneVal
    THEN cat(<<xv, Load(l["lf0"])>>)
    ELSE cat(<<xv, Load(l["y_lf0"])>>)

\* the input built for the aperiodicity sub-predictor
\* (variant: the cascaded non-MDN model conditions on the predicted streams
\* also when a target is given)
BapInp_predicted(o, l, xv, yv) ==
    IF o.variant \in EncoderVariants THEN Load(l["encoder_outs"])
    ELSE IF o.variant = "NPSS" /\ o.npss_style_conditioning
    THEN cat(<<xv, Load(l["mgc"]), Load(l["lf0"])>>)
    ELSE IF o.variant = "NPSS" \/ yv = NoneVal
    THEN cat(<<xv, Load(l["lf0"])>>)
    ELSE cat(<<xv, Load(l["y_lf0"])>>)

BapInp(o, l, xv, yv) ==
    IF o.variant \in EncoderVariants THEN Load(l["encoder_outs"])
    ELSE IF o.variant = "NPSS" /\ o.npss_style_conditioning
    THEN IF yv = NoneVal
         THEN cat(<<xv, Load(l["mgc"]), Load(l["lf0"])>>)
         ELSE cat(<<xv, Load(l["y_mgc"]), Load(l["y_lf0"])>>)
    ELSE IF yv = NoneVal
    THEN cat(<<xv, Load(l["lf0"])>>)
    ELSE cat(<<xv, Load(l["y_lf0"])>>)

\* the input built for the voicing sub-predictor
VuvInp(o, l, xv, yv, B) ==
    CASE o.variant \in EncoderVariants -> Load(l["encoder_outs"])
      [] o.variant = "NPSSMDN" ->
           IF yv = NoneVal
           THEN cat(<<xv, Load(l["lf0"]), Index(Load(l["bap"]), 1, B)>>)
           ELSE cat(<<xv, Load(l["lf0"]), Load(l["y_bap"])>>)
      [] o.variant = "NPSS" ->
           IF yv = NoneVal
           THEN IF o.npss_style_conditioning
                THEN cat(<<xv, Load(l["mgc"]), Load(l["bap"]), Load(l["lf0"])>>)
                ELSE cat(<<xv, Load(l["bap"]), Load(l["lf0"])>>)
           ELSE IF o.npss_style_conditioning
                THEN cat(<<xv, Load(l["y_mgc"]), Load(l["y_bap"]),
                           Load(l["y_lf0"])>>)
                ELSE cat(<<xv, Load(l["y_bap"]), Load(l["y_lf0"])>>)
      [] o.variant = "HybridMel" ->
           IF yv = NoneVal
           THEN cat(<<xv, Load(l["lf0"]), Index(Load(l["mel"]), 1, B)>>)
           ELSE cat(<<xv, Load(l["lf0"]), Load(l["y_mel"])>>)

\* how a sub-predictor is entered: the cascaded variants call .inference()
\* when no target is given, everything else goes through forward
Via(o, yv) ==
    IF o.variant \in CascadedVariants /\ yv = NoneVal
    THEN "inference" ELSE "forward"

Invocation(who, via, inp, target) ==
    [who |-> who, via |-> via, inp |-> inp, target |-> target]

\* the width of a returned stream: that of its stream_sizes entry, or one
\* more
Widths == {1, 2}

\* what a sub-predictor may return.  Family "all": a tensor, a list of
\* stages, and from .inference() also a tuple; family "plain": a tensor of
\* the width of its stream.
Shapes(family, via, src) ==
    IF family = "plain" THEN {Tensor(1, src)}
    ELSE {Tensor(w, src) : w \in Widths}
         \cup {ListOf(n, 1, src) : n \in (MaxStages - 1)..MaxStages}
         \cup (IF via = "inference" THEN {TupleOf(1, src)} ELSE {})

\* the streams concatenated into the output, in order
\* (variant: a vibrato stream is concatenated exactly when its own predictor
\* is not None)
OutNames_own_predictor(o) ==
    IF o.variant = "SeparateF0Parametric"
    THEN <<"mgc", "lf0", "vuv", "bap">>
         \o (IF o.vib_model # "None" THEN <<"vib">> ELSE <<>>)
         \o (IF o.vib_flags_model # "None" THEN <<"vib_flags">> ELSE <<>>)
    ELSE IF o.variant \in {"NPSSMDN", "NPSS"}
    THEN <<"mgc", "lf0", "vuv", "bap">>
    ELSE <<"mel", "lf0", "vuv">>

OutNames(o) ==
    IF o.variant = "SeparateF0Parametric"
    THEN IF o.vib_model = "None" /\ o.vib_flags_model = "None"
         THEN <<"mgc", "lf0", "vuv", "bap">>
         ELSE IF o.vib_flags_model = "None"
         THEN <<"mgc", "lf0", "vuv", "bap", "vib">>
         ELSE <<"mgc", "lf0", "vuv", "bap", "vib", "vib_flags">>
    ELSE IF o.variant \in {"NPSSMDN", "NPSS"}
    THEN <<"mgc", "lf0", "vuv", "bap">>
    ELSE <<"mel", "lf0", "vuv">>

\* the streams has_postnet_output looks at
PostnetChecked(o) ==
    CASE o.variant = "SeparateF0Parametric" -> {"mgc", "lf0", "vuv", "bap"}
      [] o.variant = "NPSS" -> {"mgc", "bap", "vuv"}
      [] o.variant = "SeparateF0Mel" -> {"mel", "lf0", "vuv"}
      [] OTHER -> {}

\* the streams picked per stage (s[idx] if isinstance(s, list) else s)
StageIndexed(o) ==
    CASE o.variant = "SeparateF0Parametric" -> {"mgc", "lf0", "vuv", "bap"}
      [] o.variant = "NPSS" -> {"mgc", "lf0", "vuv", "bap"}
      [] o.variant = "SeparateF0Mel" -> {"mel", "lf0", "vuv"}
      [] OTHER -> {}

has_postnet_output(o, l) ==
    \E name \in PostnetChecked(o) : isinstance_list(l[name])

\* assert out.shape[-1] == self.out_dim
\* (variant: no check)
AssertOutDim_unchecked(o, out) == out

AssertOutDim(o, out) ==
    IF IsExc(out) THEN out
    ELSE IF out.w = o.out_dim THEN out
    ELSE Exc("AssertionError")

\* the concatenated tensor of stage idx
StageOut(o, l, idx, B) ==
    LET names == OutNames(o)
    IN  AssertOutDim(o,
            cat([k \in DOMAIN names |->
                    IF names[k] \in StageIndexed(o)
                       /\ isinstance_list(l[names[k]])
                    THEN Index(l[names[k]], idx, B)
                    ELSE Load(l[names[k]])]))

\* the number of stages of the multi-stage branch: range(len(mgc))
StageCount(o, l, B) == len(l[Spec_(o)], B)

\* the single concatenated tensor
PlainOut(o, l) ==
    LET names == OutNames(o)
    IN  AssertOutDim(o, cat([k \in DOMAIN names |-> Load(l[names[k]])]))

\* the inference output of the two hybrid variants: element 0 of the
\* spectral (and aperiodicity) prediction
\* (variant: element 1, the earlier-stage prediction)
HybridOut_earlier(o, l, B) ==
    LET names == OutNames(o)
    IN  AssertOutDim(o,
            cat([k \in DOMAIN names |->
                    IF names[k] \in {"mgc", "mel", "bap"}
                    THEN Index(Load(l[names[k]]), 1, B)
                    ELSE Load(l[names[k]])]))

HybridOut(o, l, B) ==
    LET names == OutNames(o)
    IN  AssertOutDim(o,
            cat([k \in DOMAIN names |->
                    IF names[k] \in {"mgc", "mel", "bap"}
                    THEN Index(Load(l[names[k]]), 0, B)
                    ELSE Load(l[names[k]])]))

\* the residual returned next to the output of the hybrid inference
\* (variant: None, as the cascaded non-MDN model returns)
HybridResidual_none(out) == NoneVal

HybridResidual(out) == out

\* what forward returns or raises once every sub-predictor has run
ForwardResult(o, l, yv, B) ==
    IF o.variant \in HybridVariants
    THEN IF yv = NoneVal
         THEN LET out == HybridOut(o, l, B)
              IN  IF IsExc(out) THEN Raised(out.kind)
                  ELSE Returned("tensor", <<out>>, HybridResidual(out))
         ELSE Returned("streams",
                       [k \in DOMAIN OutNames(o) |-> l[OutNames(o)[k]]],
                       l["lf0_residual"])
    ELSE IF has_postnet_output(o, l)
    THEN LET outs == [i \in 1..StageCount(o, l, B) |->
                         StageOut(o, l, i - 1, B)]
         IN  IF \E i \in DOMAIN outs : IsExc(outs[i])
             THEN Raised(FirstExc(outs).kind)
             ELSE Returned("list", outs, l["lf0_residual"])
    ELSE LET out == PlainOut(o, l)
         IN  IF IsExc(out) THEN Raised(out.kind)
             ELSE Returned("tensor", <<out>>, l["lf0_residual"])

----------------------------------------------------------------------------
\* Actions.

Raise(e) ==
    /\ pc' = "done"
    /\ result' = Raised(e)

\* __init__ of one of the five classes
Construct(norms) ==
    \E variant \in Variants, n \in MinStreams..MaxStreams, norm \in norms :
    \E a \in CtorArgs(variant) :
        /\ pc = "new"
        /\ IF CtorAsserts(variant, StreamSizes(n), a.encoder, ar)
           THEN /\ orch' = NewOrch(variant, StreamSizes(n), a.encoder, a.vib,
                                   a.vibf, a.tf, a.npss, norm)
                /\ pc' = "idle"
                /\ result' = result
           ELSE /\ orch' = NoOrch
                /\ pc' = "ctor_failed"
                /\ result' = Raised("AssertionError")
        /\ args' = [variant |-> variant, stream_sizes |-> StreamSizes(n),
                     encoder |-> a.encoder]
        /\ UNCHANGED <<ar, lf0_model, x, y, loc, calls, ar_result, orchs, threads>>

\* orchestrator.is_autoregressive()
IsAutoregressive ==
    /\ pc = "idle"
    /\ ar_result = <<>>
    /\ ar_result' = <<is_autoregressive(orch, ar)>>
    /\ UNCHANGED <<args, orch, ar, lf0_model, pc, x, y, loc, calls, result,
                   orchs, threads>>

\* forward(x, lengths, y) is entered: self._set_lf0_params()
ForwardEnter ==
    \E B \in 1..MaxBatch, w \in 1..(InDim + 1), hasY \in BOOLEAN :
        /\ pc = "idle"
        /\ x' = [B |-> B, w |-> w]
        /\ y' = IF hasY THEN Tensor(orch.out_dim, "y") ELSE NoneVal
        /\ lf0_model' = set_lf0_params(orch, lf0_model)
        /\ loc' = NoLocals
        /\ calls' = <<>>
        /\ result' = NoResult
        /\ pc' = "assert_in_dim"
        /\ UNCHANGED <<args, orch, ar, ar_result, orchs, threads>>

\* assert x.shape[-1] == self.in_dim
AssertInDim ==
    /\ pc = "assert_in_dim"
    /\ IF in_dim_ok(orch, x)
       THEN pc' = "split" /\ result' = result
       ELSE Raise("AssertionError")
    /\ UNCHANGED <<args, orch, ar, lf0_model, x, y, loc, calls, ar_result, orchs, threads>>

\* the targets: split_streams(y, self.stream_sizes) unpacked, or None
SplitTarget ==
    /\ pc = "split"
    /\ IF y = NoneVal
       THEN /\ loc' = [name \in LocalNames |->
                          IF name \in NoneNames(orch) THEN NoneVal
                          ELSE loc[name]]
            /\ pc' = "lf0"
            /\ result' = result
       ELSE LET outs == split_streams(y, orch.stream_sizes)
                names == TargetNames(orch)
            IN  IF Len(outs) = Len(names)
                THEN /\ loc' = [name \in LocalNames |->
                                  IF \E i \in DOMAIN names : names[i] = name
                                  THEN outs[CHOOSE i \in DOMAIN names :
                                                names[i] = name]
                                  ELSE loc[name]]
                     /\ pc' = "lf0"
                     /\ result' = result
                ELSE /\ loc' = loc
                     /\ Raise("ValueError")
    /\ UNCHANGED <<args, orch, ar, lf0_model, x, y, calls, ar_result, orchs, threads>>

\* one sub-predictor is handed inp and target and returns ret
Invoke(who, name, inp, target, ret) ==
    IF IsExc(inp)
    THEN /\ Raise(inp.kind)
         /\ UNCHANGED <<loc, calls>>
    ELSE IF IsExc(target)
    THEN /\ Raise(target.kind)
         /\ UNCHANGED <<loc, calls>>
    ELSE /\ calls' = Append(calls,
                            Invocation(who, Via(orch, y), inp,
                                       IF Via(orch, y) = "inference"
                                       THEN NoneVal ELSE target))
         /\ loc' = [loc EXCEPT ![name] = ret]
         /\ pc' = After(orch, pc)
         /\ result' = result

\* Predict continuous log-F0 first
CallLf0(family) ==
    /\ pc = "lf0"
    /\ \E ret \in Shapes(family, Via(orch, y), "lf0") :
          /\ calls' = Append(calls,
                             Invocation("lf0_model", Via(orch, y), Xv,
                                        IF Via(orch, y) = "inference"
                                        THEN NoneVal ELSE loc["y_lf0"]))
          /\ loc' = [loc EXCEPT
                       !["lf0"] = ret,
                       !["lf0_residual"] =
                           IF Via(orch, y) = "inference" THEN NoneVal
                           ELSE Tensor(1, "lf0_residual")]
          /\ pc' = After(orch, pc)
    /\ UNCHANGED <<args, orch, ar, lf0_model, x, y, result, ar_result, orchs, threads>>

\* the shared conditioning tensor of the encoder-based variants
Encoder ==
    /\ pc = "encoder"
    /\ LET outs == EncoderOuts(orch, loc, Xv, y)
       IN  /\ calls' = IF orch.encoder # "None"
                       THEN Append(calls,
                                   Invocation("encoder", "forward", Xv,
                                              NoneVal))
                       ELSE calls
           /\ IF IsExc(outs)
              THEN Raise(outs.kind) /\ loc' = loc
              ELSE /\ loc' = [loc EXCEPT !["encoder_outs"] = outs]
                   /\ pc' = After(orch, pc)
                   /\ result' = result
    /\ UNCHANGED <<args, orch, ar, lf0_model, x, y, ar_result, orchs, threads>>

\* Predict spectral parameters (mgc or mel)
CallSpectral(family) ==
    /\ pc = "spectral"
    /\ \E ret \in Shapes(family, Via(orch, y), Spec_(orch)) :
          Invoke(Spectral(orch), Spec_(orch), SpectralInp(orch, loc, Xv, y),
                 Load(loc[YSpec(orch)]), ret)
    /\ UNCHANGED <<args, orch, ar, lf0_model, x, y, ar_result, orchs, threads>>

\* Predict V/UV
CallVuv(family) ==
    /\ pc = "vuv"
    /\ \E ret \in Shapes(family, Via(orch, y), "vuv") :
          Invoke("vuv_model", "vuv", VuvInp(orch, loc, Xv, y, x.B),
                 Load(loc["y_vuv"]), ret)
    /\ UNCHANGED <<args, orch, ar, lf0_model, x, y, ar_result, orchs, threads>>

\* Predict aperiodic parameters
CallBap(family) ==
    /\ pc = "bap"
    /\ \E ret \in Shapes(family, Via(orch, y), "bap") :
          Invoke("bap_model", "bap", BapInp(orch, loc, Xv, y),
                 Load(loc["y_bap"]), ret)
    /\ UNCHANGED <<args, orch, ar, lf0_model, x, y, ar_result, orchs, threads>>

\* if self.vib_model is not None: vib = self.vib_model(...)
CallVib(family) ==
    /\ pc = "vib"
    /\ \E ret \in Shapes(family, Via(orch, y), "vib") :
          Invoke("vib_model", "vib", Load(loc["encoder_outs"]),
                 Load(loc["y_vib"]), ret)
    /\ UNCHANGED <<args, orch, ar, lf0_model, x, y, ar_result, orchs, threads>>

\* if self.vib_flags_model is not None: vib_flags = self.vib_flags_model(...)
CallVibFlags(family) ==
    /\ pc = "vib_flags"
    /\ \E ret \in Shapes(family, Via(orch, y), "vib_flags") :
          Invoke("vib_flags_model", "vib_flags", Load(loc["encoder_outs"]),
                 Load(loc["y_vib_flags"]), ret)
    /\ UNCHANGED <<args, orch, ar, lf0_model, x, y, ar_result, orchs, threads>>

\* make a concatenated stream, check its width and return
Concat ==
    /\ pc = "concat"
    /\ result' = ForwardResult(orch, loc, y, x.B)
    /\ pc' = "done"
    /\ UNCHANGED <<args, orch, ar, lf0_model, x, y, loc, calls, ar_result, orchs, threads>>

\* the call has returned or raised: its frame is gone and the caller has
\* taken the result
Return ==
    /\ pc = "done"
    /\ pc' = "idle"
    /\ x' = [B |-> 1, w |-> InDim]
    /\ y' = NoneVal
    /\ loc' = NoLocals
    /\ calls' = <<>>
    /\ result' = NoResult
    /\ UNCHANGED <<args, orch, ar, lf0_model, ar_result, orchs, threads>>

----------------------------------------------------------------------------
\* Forward calls in flight on orchestrators that share one F0 sub-predictor.
\* Each call runs the statements of forward up to the invocation of the F0
\* sub-predictor; the assignments of _set_lf0_params are separate steps, so
\* that calls interleave between any two of them.

\* the assignments of _set_lf0_params, in program order
PushOrder == <<"in_lf0_min", "in_lf0_max", "out_lf0_mean", "out_lf0_scale">>

\* self.lf0_model.<a> = self.<a>
\* (variant: the attribute is left as it was)
push_field_skipped(o, m, a) == m

push_field(o, m, a) == [m EXCEPT ![a] = <<o[a]>>]

\* a thread that is not inside forward
IdleThread == [pc |-> "idle", self |-> "none", k |-> 0, overlap |-> "none",
               seen |-> <<>>]

\* whether two orchestrators were configured with the same constants
SameNorm(o1, o2) == \A a \in NormFields : o1[a] = o2[a]

\* what a thread records about the calls that were in flight while it was
\* between entering forward and invoking the F0 sub-predictor
Meet(old, o1, o2) ==
    IF old = "differing" \/ ~SameNorm(o1, o2) THEN "differing" ELSE "same"

InFlight(t) == threads[t].pc # "idle"

BeforeF0(t) == threads[t].pc \in {"push", "assert_in_dim", "lf0"}

\* forward(x, lengths, y) is entered on orchestrator o by thread t:
\* if hasattr(self.lf0_model, "out_lf0_mean")
SharedEnter(t) ==
    \E o \in DOMAIN orchs :
        /\ threads[t].pc = "idle"
        /\ threads' =
              [u \in DOMAIN threads |->
                  IF u = t
                  THEN [pc |-> IF hasattr(lf0_model, "out_lf0_mean")
                               THEN "push" ELSE "assert_in_dim",
                        self |-> o,
                        k |-> IF hasattr(lf0_model, "out_lf0_mean")
                              THEN 1 ELSE 0,
                        overlap |->
                            IF \E v \in DOMAIN threads :
                                  InFlight(v)
                                  /\ ~SameNorm(orchs[threads[v].self], orchs[o])
                            THEN "differing"
                            ELSE IF \E v \in DOMAIN threads : InFlight(v)
                            THEN "same" ELSE "none",
                        seen |-> <<>>]
                  ELSE IF BeforeF0(u)
                  THEN [threads[u] EXCEPT
                          !.overlap = Meet(threads[u].overlap,
                                           orchs[threads[u].self], orchs[o])]
                  ELSE threads[u]]
        /\ UNCHANGED <<args, orch, ar, lf0_model, pc, x, y, loc, calls,
                       result, ar_result, orchs>>

\* one assignment of _set_lf0_params
SharedPush(t) ==
    /\ threads[t].pc = "push"
    /\ lf0_model' = push_field(orchs[threads[t].self], lf0_model,
                               PushOrder[threads[t].k])
    /\ threads' = IF threads[t].k < Len(PushOrder)
                  THEN [threads EXCEPT ![t].k = threads[t].k + 1]
                  ELSE [threads EXCEPT ![t].pc = "assert_in_dim", ![t].k = 0]
    /\ UNCHANGED <<args, orch, ar, pc, x, y, loc, calls, result, ar_result,
                   orchs>>

\* assert x.shape[-1] == self.in_dim, and the targets
SharedAssertInDim(t) ==
    \E w \in {InDim, InDim + 1} :
        /\ threads[t].pc = "assert_in_dim"
        /\ threads' = [threads EXCEPT
                         ![t].pc = IF in_dim_ok(orchs[threads[t].self],
                                                [B |-> 1, w |-> w])
                                   THEN "lf0" ELSE "raised"]
        /\ UNCHANGED <<args, orch, ar, lf0_model, pc, x, y, loc, calls,
                       result, ar_result, orchs>>

\* Predict continuous log-F0 first: the F0 sub-predictor runs with the
\* attributes it has at this moment
SharedCallLf0(t) ==
    /\ threads[t].pc = "lf0"
    /\ threads' = [threads EXCEPT ![t].pc = "invoked",
                                  ![t].seen = <<lf0_model>>]
    /\ UNCHANGED <<args, orch, ar, lf0_model, pc, x, y, loc, calls, result,
                   ar_result, orchs>>

\* the rest of forward touches no attribute of the F0 sub-predictor; the
\* call returns or raises
SharedReturn(t) ==
    /\ threads[t].pc \in {"invoked", "raised"}
    /\ threads' = [threads EXCEPT ![t] = IdleThread]
    /\ UNCHANGED <<args, orch, ar, lf0_model, pc, x, y, loc, calls, result,
                   ar_result, orchs>>

----------------------------------------------------------------------------
\* Specifications.

NoAR == [obj \in Objects |-> FALSE]

NoArgs == [variant |-> "none", stream_sizes |-> <<>>, encoder |-> "None"]

InitWith(f0models, arflags) ==
    /\ args = NoArgs
    /\ orch = NoOrch
    /\ ar \in arflags
    /\ lf0_model \in f0models
    /\ pc = "new"
    /\ x = [B |-> 1, w |-> InDim]
    /\ y = NoneVal
    /\ loc = NoLocals
    /\ calls = <<>>
    /\ result = NoResult
    /\ ar_result = <<>>
    /\ orchs = <<>>
    /\ threads = <<>>

Call(family) ==
    \/ ForwardEnter
    \/ AssertInDim
    \/ SplitTarget
    \/ CallLf0(family)
    \/ Encoder
    \/ CallSpectral(family)
    \/ CallVuv(family)
    \/ CallBap(family)
    \/ CallVib(family)
    \/ CallVibFlags(family)
    \/ Concat
    \/ Return

\* Forward calls with every shape a sub-predictor may return.
Init == InitWith({ResF0Model}, {NoAR})

Next == Construct({DefaultNorm}) \/ Call("all")

Spec == Init /\ [][Next]_vars

\* Construction and is_autoregressive() over every assignment of
\* autoregressive flags.
InitAR == InitWith({ResF0Model}, [Objects -> BOOLEAN])

NextAR == Construct({DefaultNorm}) \/ IsAutoregressive

SpecAR == InitAR /\ [][NextAR]_vars

\* The normalization push over every kind of F0 sub-predictor and
\* normalization constants, the sub-predictors returning plain tensors.
InitNorm == InitWith({PlainF0Model, ResF0Model, MeanOnlyF0Model}, {NoAR})

NextNorm == Construct({DefaultNorm, CustomNorm}) \/ Call("plain")

SpecNorm == InitNorm /\ [][NextNorm]_vars

\* Interleaved forward calls of MaxThreads threads on two orchestrators
\* constructed around one F0 sub-predictor: the first with the default
\* normalization constants, the second with either set of constants
\* (orchestrators with the same constants push the same values, so two of
\* them give every combination of same and differing callers).
SharedIds == {"a", "b"}

SharedOrchs ==
    {NewOrch("NPSS", StreamSizes(4), "None", "None", "None", TRUE, FALSE,
             norm) : norm \in {DefaultNorm, CustomNorm}}

InitShared ==
    /\ args = NoArgs
    /\ orch = NoOrch
    /\ ar = NoAR
    /\ lf0_model \in {PlainF0Model, ResF0Model}
    /\ pc = "new"
    /\ x = [B |-> 1, w |-> InDim]
    /\ y = NoneVal
    /\ loc = NoLocals
    /\ calls = <<>>
    /\ result = NoResult
    /\ ar_result = <<>>
    /\ orchs \in [SharedIds -> SharedOrchs]
    /\ SameNorm(orchs["a"], DefaultNorm)
    /\ threads = [t \in 1..MaxThreads |-> IdleThread]

NextShared ==
    \E t \in DOMAIN threads :
        \/ SharedEnter(t)
        \/ SharedPush(t)
        \/ SharedAssertInDim(t)
        \/ SharedCallLf0(t)
        \/ SharedReturn(t)

SpecShared == InitShared /\ [][NextShared]_vars

----------------------------------------------------------------------------
\* Properties.

Finished == pc = "done" /\ result.status = "return"

\* the call ran training-mode for the two variants that return the
\* per-stream tuple
ReturnsStreams == orch.variant \in HybridVariants /\ y # NoneVal

\* the sub-predictors a complete call invokes, in the order of the text of
\* forward
ExpectedInvocations(o) ==
    LET enc == IF o.encoder # "None" THEN <<"encoder">> ELSE <<>>
    IN  CASE o.variant = "SeparateF0Parametric" ->
               <<"lf0_model">> \o enc
               \o <<"mgc_model", "vuv_model", "bap_model">>
               \o (IF o.vib_model # "None" THEN <<"vib_model">> ELSE <<>>)
               \o (IF o.vib_flags_model # "None"
                   THEN <<"vib_flags_model">> ELSE <<>>)
          [] o.variant \in {"NPSSMDN", "NPSS"} ->
               <<"lf0_model", "mgc_model", "bap_model", "vuv_model">>
          [] o.variant = "SeparateF0Mel" ->
               <<"lf0_model">> \o enc \o <<"mel_model", "vuv_model">>
          [] o.variant = "HybridMel" ->
               <<"lf0_model", "mel_model", "vuv_model">>

Invoked == [i \in DOMAIN calls |-> calls[i].who]

\* every stream of the output can be concatenated: plain tensors, and for
\* the inference of the hybrid variants a pair for spectral and aperiodicity
Concatenable ==
    \A k \in DOMAIN OutNames(orch) :
        LET name == OutNames(orch)[k]
        IN  IF orch.variant \in HybridVariants
               /\ name \in {"mgc", "mel", "bap"}
            THEN loc[name].kind \in {"tuple", "list"}
            ELSE loc[name].kind = "tensor"

StreamWidthSum == SumSeq([k \in DOMAIN OutNames(orch) |-> loc[OutNames(orch)[k]].w])

\* C1 as stated: in every variant, with or without a target, a forward call
\* that returns normally returns a concatenated tensor, or a list of them,
\* each of width out_dim.
C1_EveryReturnIsConcatenated ==
    Finished =>
        /\ result.form \in {"tensor", "list"}
        /\ \A i \in DOMAIN result.outs :
              result.outs[i].kind = "tensor" /\ result.outs[i].w = orch.out_dim

\* C1 amended: the three variants with list handling in both modes, and the
\* two hybrid variants without a target, return concatenated tensors of
\* width exactly out_dim, and streams whose widths do not add up to out_dim
\* make the call raise AssertionError; with a target the two hybrid variants
\* return the per-stream tuple instead.
C1_OutDimChecked ==
    /\ (Finished /\ ~ReturnsStreams) =>
          /\ result.form \in {"tensor", "list"}
          /\ result.outs # <<>>
          /\ \A i \in DOMAIN result.outs :
                result.outs[i].kind = "tensor"
                /\ result.outs[i].w = orch.out_dim
    /\ (Finished /\ ReturnsStreams) => result.form = "streams"
    /\ (pc = "done" /\ Invoked = ExpectedInvocations(orch)
          /\ ~ReturnsStreams /\ Concatenable
          /\ StreamWidthSum # orch.out_dim)
          => result = Raised("AssertionError")

C1_Witness ==
    /\ Finished
    /\ orch.variant = "SeparateF0Parametric"
    /\ y # NoneVal
    /\ result.form = "list"
    /\ Len(result.outs) = 2
    /\ result.outs[2].w = orch.out_dim

\* the normalization fields of the F0 sub-predictor hold the orchestrator's
\* constants
Pushed == orch # NoOrch /\ \A a \in NormFields : lf0_model[a] = <<orch[a]>>

\* C2: a forward call whose input width differs from in_dim raises
\* AssertionError with no sub-predictor invoked and nothing returned; the
\* normalization push has already happened when the width is checked.
C2_InDimFailsFast ==
    /\ (pc = "assert_in_dim" /\ hasattr(lf0_model, "out_lf0_mean")) => Pushed
    /\ (pc \notin {"new", "ctor_failed", "idle", "assert_in_dim"}
          /\ x.w # orch.in_dim) =>
          /\ pc = "done"
          /\ result = Raised("AssertionError")
          /\ calls = <<>>
          /\ loc = NoLocals
          /\ Pushed

C2_Witness ==
    /\ pc = "done"
    /\ x.w # orch.in_dim
    /\ y # NoneVal
    /\ result = Raised("AssertionError")
    /\ calls = <<>>
    /\ Pushed

\* C3: is_autoregressive() of an orchestrator is the logical OR of
\* is_autoregressive() over its non-null owned sub-predictors.
C3_AutoregressiveIsOr ==
    ar_result # <<>> =>
        ar_result[1] = (\E obj \in OwnedSubs(orch) : ar[obj])

C3_Witness ==
    /\ ar_result = <<TRUE>>
    /\ orch.variant = "SeparateF0Parametric"
    /\ orch.vib_flags_model # "None"
    /\ \A obj \in Objects : ar[obj] = (obj = "vib_flags_model")

ForwardEntered == pc = "idle" /\ pc' = "assert_in_dim"

\* C4: the normalization push sets exactly the four normalization fields of
\* the F0 sub-predictor to the orchestrator's constants if and only if the
\* sub-predictor exposes out_lf0_mean, and otherwise changes nothing; the
\* index fields of both objects never change; once pushed, further calls
\* leave the fields as they are.
C4_NormalizationPush ==
    [][/\ \A a \in IdxFields : lf0_model'[a] = lf0_model[a]
       /\ orch # NoOrch => orch' = orch
       /\ ForwardEntered =>
             IF hasattr(lf0_model, "out_lf0_mean")
             THEN \A a \in NormFields : lf0_model'[a] = <<orch[a]>>
             ELSE lf0_model' = lf0_model
       /\ ~ForwardEntered => lf0_model' = lf0_model
       /\ Pushed => lf0_model' = lf0_model]_vars

C4_Witness ==
    /\ Finished
    /\ orch.in_lf0_min = CustomNorm.in_lf0_min
    /\ Pushed
    /\ lf0_model["in_lf0_idx"] = <<>>

\* the F0 parts of a conditioning tensor: the predicted F0 and slice 1 of
\* the target
F0Parts(v) ==
    SelectSeq(v.parts, LAMBDA p : p = Part("lf0") \/ p = PartAt("y", 1))

Decoders == Objects \ {"encoder", "lf0_model"}

\* C5 as stated: in the encoder-based variants the conditioning every
\* decoder receives carries the ground-truth F0 when a target is supplied
\* and the predicted F0 when it is not, in every configuration.
C5_TargetAloneDecides ==
    \A i \in DOMAIN calls :
        (orch.variant \in EncoderVariants /\ calls[i].who \in Decoders) =>
            F0Parts(calls[i].inp) =
                IF y # NoneVal THEN <<PartAt("y", 1)>> ELSE <<Part("lf0")>>

\* C5 amended: with an encoder, the conditioning of every decoder is encoder
\* output, rest flags and one F0 signal: the ground-truth F0 when a target
\* is supplied (and, in the parametric variant, lf0_teacher_forcing is on),
\* the predicted F0 otherwise; without an encoder it is the raw input alone.
C5_TeacherForcingSwitch ==
    \A i \in DOMAIN calls :
        (orch.variant \in EncoderVariants /\ calls[i].who \in Decoders) =>
            calls[i].inp.parts =
                IF orch.encoder = "None" THEN <<Part("x")>>
                ELSE <<Part("encoder"), Part("rest_flags"),
                       IF y # NoneVal
                          /\ (orch.variant = "SeparateF0Mel"
                                \/ orch.lf0_teacher_forcing)
                       THEN PartAt("y", 1) ELSE Part("lf0")>>

C5_Witness ==
    /\ Finished
    /\ orch.variant = "SeparateF0Parametric"
    /\ orch.encoder # "None"
    /\ y # NoneVal
    /\ calls[Len(calls)].who = "bap_model"
    /\ calls[Len(calls)].inp.parts[3] = PartAt("y", 1)

\* the variants whose forward handles multi-stage (list) outputs
ListVariants == {"SeparateF0Parametric", "NPSS", "SeparateF0Mel"}

\* the list-valued streams of the output
ListStreams ==
    {k \in DOMAIN OutNames(orch) : loc[OutNames(orch)[k]].kind = "list"}

\* every sub-predictor has run, every stream is a tensor or a list of
\* N(k) stages, at least one is a list, all lists have as many stages, and
\* the widths add up to out_dim
MultiStageCall ==
    /\ pc = "done"
    /\ orch.variant \in ListVariants
    /\ Invoked = ExpectedInvocations(orch)
    /\ \A k \in DOMAIN OutNames(orch) :
          loc[OutNames(orch)[k]].kind \in {"tensor", "list"}
    /\ ListStreams # {}
    /\ \A j, k \in ListStreams :
          loc[OutNames(orch)[j]].n = loc[OutNames(orch)[k]].n
    /\ StreamWidthSum = orch.out_dim

\* stage i (from 0) of the output the claim describes
ExpectedStage(i) ==
    TensorOf(orch.out_dim,
             [k \in DOMAIN OutNames(orch) |->
                 IF k \in ListStreams
                 THEN PartAt(OutNames(orch)[k], i)
                 ELSE Part(OutNames(orch)[k])])

\* C6: whichever stream sub-predictor returns a list of N stages, the
\* orchestrator returns exactly N concatenated tensors of width out_dim,
\* stage i built from element i of every list-valued stream and from the
\* single tensor of every other stream.
C6_AnyListGivesNStages ==
    MultiStageCall =>
        LET N == loc[OutNames(orch)[CHOOSE k \in ListStreams : TRUE]].n
        IN  /\ result.status = "return"
            /\ result.form = "list"
            /\ result.outs = [i \in 1..N |-> ExpectedStage(i - 1)]

\* C7: in the cascaded variants, with a target, the input built for every
\* sub-predictor after F0 is made of the raw input and of target streams
\* only.
C7_TrainingInputsAreGroundTruth ==
    \A i \in DOMAIN calls :
        (orch.variant \in CascadedVariants /\ y # NoneVal
            /\ calls[i].who \in Decoders) =>
            \A k \in DOMAIN calls[i].inp.parts :
                calls[i].inp.parts[k].src \in {"x", "y"}

\* C8: without a target, the cascaded mixture-density and the hybrid mel
\* orchestrators return the same concatenated tensor of width out_dim twice,
\* and the cascaded non-MDN orchestrator returns its output with None.
C8_InferenceResidual ==
    (Finished /\ y = NoneVal) =>
        /\ orch.variant \in {"NPSSMDN", "HybridMel"} =>
              /\ result.form = "tensor"
              /\ Len(result.outs) = 1
              /\ result.outs[1].kind = "tensor"
              /\ result.outs[1].w = orch.out_dim
              /\ result.residual = result.outs[1]
        /\ orch.variant = "NPSS" =>
              /\ result.form \in {"tensor", "list"}
              /\ result.residual = NoneVal

C8_Witness ==
    /\ Finished
    /\ y = NoneVal
    /\ orch.variant = "NPSSMDN"
    /\ result.residual = result.outs[1]
    /\ result.residual.w = orch.out_dim

\* the stream counts the claim allows
ClaimedStreamCounts(variant) ==
    CASE variant = "SeparateF0Parametric" -> {4, 5, 6}
      [] variant = "NPSSMDN" -> {4}
      [] variant = "NPSS" -> {4}
      [] variant = "SeparateF0Mel" -> {3}
      [] variant = "HybridMel" -> {3}

\* C9: construction raises AssertionError and yields no orchestrator exactly
\* when the stream count is unsupported for the variant or a non-null
\* encoder is autoregressive; a null encoder is accepted unchecked.
C9_ConstructionAsserts ==
    pc # "new" =>
        IF \/ Len(args.stream_sizes) \notin ClaimedStreamCounts(args.variant)
           \/ (args.encoder # "None" /\ ar["encoder"])
        THEN /\ pc = "ctor_failed"
             /\ orch = NoOrch
             /\ result = Raised("AssertionError")
        ELSE /\ pc # "ctor_failed"
             /\ orch # NoOrch
             /\ orch.variant = args.variant
             /\ orch.stream_sizes = args.stream_sizes
             /\ orch.encoder = args.encoder

C9_Witness ==
    /\ pc = "ctor_failed"
    /\ orch = NoOrch
    /\ args.variant = "SeparateF0Mel"
    /\ Len(args.stream_sizes) = 3
    /\ args.encoder # "None"
    /\ ar["encoder"]

IsPrefix(s, t) == Len(s) <= Len(t) /\ \A i \in DOMAIN s : s[i] = t[i]

\* C10 as stated: every forward call that passes the input-width check
\* invokes the F0 sub-predictor first and then every other non-null
\* sub-predictor exactly once, in the fixed order of its variant.
C10_EveryCheckedCallInvokesAll ==
    (pc = "done" /\ x.w = orch.in_dim) => Invoked = ExpectedInvocations(orch)

\* C10 amended: the invocations of a forward call are at every moment a
\* prefix of the fixed order of its variant (F0 first, nothing twice), the
\* same with and without a target, and the order is complete in every call
\* that reaches the final concatenation, so in every call that returns.
C10_FixedInvocationOrder ==
    orch # NoOrch =>
        /\ IsPrefix(Invoked, ExpectedInvocations(orch))
        /\ (pc = "concat" \/ Finished) => Invoked = ExpectedInvocations(orch)

C10_Witness ==
    /\ Finished
    /\ orch.variant = "SeparateF0Parametric"
    /\ y # NoneVal
    /\ Invoked = <<"lf0_model", "encoder", "mgc_model", "vuv_model",
                   "bap_model", "vib_model", "vib_flags_model">>

\* the upstream prediction the voicing sub-predictor of a hybrid variant is
\* conditioned on
Upstream(o) == IF o.variant = "NPSSMDN" THEN "bap" ELSE "mel"

\* a call without a target on a hybrid variant whose upstream sub-predictor
\* has returned a pair
HybridPairCall ==
    /\ orch.variant \in HybridVariants
    /\ y = NoneVal
    /\ loc[Upstream(orch)].kind = "tuple"

PairStreams == {"mgc", "mel", "bap"}

\* C11: in a call without a target on the cascaded mixture-density and the
\* hybrid mel orchestrators where the upstream sub-predictor returned a
\* pair, the voicing input is the raw input, the predicted F0 and element 1
\* of the pair; the returned output is built from element 0 of the spectral
\* and aperiodicity predictions; element 0 never enters a conditioning input
\* and element 1 never enters the output.
C11_PairElements ==
    HybridPairCall =>
        /\ \A i \in DOMAIN calls :
              /\ calls[i].who = "vuv_model" =>
                    calls[i].inp.parts =
                        <<Part("x"), Part("lf0"), PartAt(Upstream(orch), 1)>>
              /\ \A k \in DOMAIN calls[i].inp.parts :
                    ~(/\ calls[i].inp.parts[k].src \in PairStreams
                      /\ calls[i].inp.parts[k].sel = <<0>>)
        /\ Finished =>
              /\ result.form = "tensor"
              /\ result.outs[1].parts =
                    [k \in DOMAIN OutNames(orch) |->
                        IF OutNames(orch)[k] \in PairStreams
                        THEN PartAt(OutNames(orch)[k], 0)
                        ELSE Part(OutNames(orch)[k])]
              /\ \A k \in DOMAIN result.outs[1].parts :
                    result.outs[1].parts[k].sel # <<1>>

C11_Witness ==
    /\ Finished
    /\ HybridPairCall
    /\ orch.variant = "NPSSMDN"
    /\ loc["mgc"].kind = "tuple"
    /\ calls[4].who = "vuv_model"
    /\ calls[4].inp.parts = <<Part("x"), Part("lf0"), PartAt("bap", 1)>>
    /\ result.outs[1].parts =
          <<PartAt("mgc", 0), Part("lf0"), Part("vuv"), PartAt("bap", 0)>>

\* the F0 sub-predictor ran with exactly the constants of the orchestrator
\* that invoked it
RanWithOwn(t) ==
    \A a \in NormFields :
        threads[t].seen[1][a] = <<orchs[threads[t].self][a]>>

F0Invoked(t) ==
    threads[t].pc = "invoked" /\ hasattr(threads[t].seen[1], "out_lf0_mean")

AllSameNorm == \A o1, o2 \in DOMAIN orchs : SameNorm(orchs[o1], orchs[o2])

\* C12: whenever a forward call invokes a shared F0 sub-predictor that
\* exposes the normalization fields, the four fields equal the constants of
\* the invoking orchestrator if all orchestrators have the same constants,
\* and also if no other call was in flight between the entry of the call
\* and the invocation; the fields differ from the caller's constants only
\* when a call on an orchestrator with differing constants was in flight
\* in between.
C12_SharedF0Normalization ==
    \A t \in DOMAIN threads :
        F0Invoked(t) =>
            /\ AllSameNorm => RanWithOwn(t)
            /\ threads[t].overlap = "none" => RanWithOwn(t)
            /\ ~RanWithOwn(t) => threads[t].overlap = "differing"

\* an interleaving with differing constants in which the F0 sub-predictor
\* runs with another caller's constants
C12_Witness ==
    /\ F0Invoked(1)
    /\ threads[1].overlap = "differing"
    /\ ~RanWithOwn(1)
    /\ \A a \in NormFields :
          threads[1].seen[1][a] = <<orchs[threads[2].self][a]>>
    /\ InFlight(2)

\* the position of a stream in the target of the cascaded parametric models
TargetIdx(name) ==
    CASE name = "mgc" -> 0
      [] name = "lf0" -> 1
      [] name = "vuv" -> 2
      [] name = "bap" -> 3

\* a conditioning stream: the slice of the target when a target is given,
\* the prediction when not
Cond(name) ==
    IF y = NoneVal THEN Part(name) ELSE PartAt("y", TargetIdx(name))

\* the conditioning streams the claim gives to each sub-predictor of the
\* cascaded non-MDN orchestrator
ClaimedCond(who) ==
    CASE who = "lf0_model" -> <<>>
      [] who = "mgc_model" -> <<"lf0">>
      [] who = "bap_model" ->
           IF orch.npss_style_conditioning
           THEN <<"mgc", "lf0">> ELSE <<"lf0">>
      [] who = "vuv_model" ->
           IF orch.npss_style_conditioning
           THEN <<"mgc", "bap", "lf0">> ELSE <<"bap", "lf0">>

\* C13: in the cascaded non-MDN orchestrator the spectral sub-predictor is
\* conditioned on input + F0; with NPSS-style conditioning disabled
\* aperiodicity is conditioned on input + F0 and voicing on input +
\* aperiodicity + F0, and no spectral stream enters either; with it enabled
\* aperiodicity is conditioned on input + spectral + F0 and voicing on
\* input + spectral + aperiodicity + F0.  Every conditioning stream is the
\* slice of the target when a target is given and the prediction when not.
C13_NPSSConditioning ==
    orch.variant = "NPSS" =>
        \A i \in DOMAIN calls :
            /\ calls[i].inp.parts =
                  <<Part("x")>>
                  \o [k \in DOMAIN ClaimedCond(calls[i].who) |->
                         Cond(ClaimedCond(calls[i].who)[k])]
            /\ (~orch.npss_style_conditioning
                  /\ calls[i].who \in {"bap_model", "vuv_model"}) =>
                  \A k \in DOMAIN calls[i].inp.parts :
                      calls[i].inp.parts[k] \notin
                          {Part("mgc"), PartAt("y", 0)}

C13_Witness ==
    /\ Finished
    /\ orch.variant = "NPSS"
    /\ orch.npss_style_conditioning
    /\ y # NoneVal
    /\ calls[3].who = "bap_model"
    /\ calls[3].inp.parts = <<Part("x"), PartAt("y", 0), PartAt("y", 1)>>
    /\ calls[4].who = "vuv_model"
    /\ calls[4].inp.parts =
          <<Part("x"), PartAt("y", 0), PartAt("y", 3), PartAt("y", 1)>>

\* the streams of the predictors that are not None, in the fixed order
OwnStreams(o) ==
    <<"mgc", "lf0", "vuv", "bap">>
    \o (IF o.vib_model # "None" THEN <<"vib">> ELSE <<>>)
    \o (IF o.vib_flags_model # "None" THEN <<"vib_flags">> ELSE <<>>)

\* the sub-predictor outputs a returned tensor was concatenated from
Sources(out) == [k \in DOMAIN out.parts |-> out.parts[k].src]

\* C14: in the encoder+parametric orchestrator every returned tensor is the
\* concatenation, in the order spectral, F0, voicing, aperiodicity, vibrato,
\* vibrato-flags, of the four mandatory streams and the streams of the
\* vibrato predictors that are not None; construction accepts a stream
\* count that does not match, and a call with a target returns only if
\* len(stream_sizes) is 4 + the number of vibrato streams; with a
\* vibrato-flags predictor and no vibrato predictor no call returns.
C14_VibratoStreams ==
    orch.variant = "SeparateF0Parametric" =>
        /\ Finished =>
              /\ \A i \in DOMAIN result.outs :
                    Sources(result.outs[i]) = OwnStreams(orch)
              /\ y # NoneVal =>
                    Len(orch.stream_sizes) = Len(OwnStreams(orch))
        /\ (orch.vib_flags_model # "None" /\ orch.vib_model = "None") =>
              /\ ~Finished
              /\ pc = "concat" => loc["vib"] = Unbound
        /\ (pc = "done" /\ y # NoneVal /\ x.w = orch.in_dim
              /\ Len(orch.stream_sizes) # Len(TargetNames(orch))) =>
              result = Raised("ValueError")

\* a call with a target on an orchestrator with a vibrato-flags predictor,
\* no vibrato predictor and six streams: every predictor ran and the
\* concatenation failed on the vibrato prediction that was never computed
C14_Witness ==
    /\ pc = "done"
    /\ orch.variant = "SeparateF0Parametric"
    /\ orch.vib_flags_model # "None"
    /\ orch.vib_model = "None"
    /\ y # NoneVal
    /\ Len(orch.stream_sizes) = 6
    /\ Invoked = ExpectedInvocations(orch)
    /\ loc["vib"] = Unbound
    /\ result = Raised("UnboundLocalError")

====
